---- MODULE Spec2Model ----
(***************************************************************************)
(* The security-plugin role endpoints of opensearchapi: RoleCreate,        *)
(* RoleDelete, RoleMappingCreate and RoleMappingDelete.  One call is       *)
(* modelled from the construction of its request configuration, through    *)
(* the application of its functional options and the building of the HTTP  *)
(* request in Do, to the return of the transport and of the call.          *)
(*                                                                         *)
(* A Go string is the sequence of its pieces (a tuple of TLA+ strings), so *)
(* that concatenation, joining and escaping are computed, not assumed.     *)
(* An http.Header is a function from canonical keys to the sequence of     *)
(* their values; a nil map and an empty map are both the empty function:   *)
(* the code reads them alike (len, range) and allocates before writing.    *)
(***************************************************************************)
EXTENDS Integers, Sequences, FiniteSets, TLC

VARIABLES kind, r, o, pc, req, performs, tres, ret, cell, calls

vars == <<kind, r, o, pc, req, performs, tres, ret, cell, calls>>

\* The number of options one call is given.
MaxOpts == 3

\* The number of options each of the concurrent calls is given.
MaxConcOpts == 2

----------------------------------------------------------------------------
\* Values

Kinds == {"RoleCreate", "RoleDelete", "RoleMappingCreate", "RoleMappingDelete"}

CreateKinds == {"RoleCreate", "RoleMappingCreate"}

DeleteKinds == {"RoleDelete", "RoleMappingDelete"}

\* The identifiers a caller passes: the empty string, a plain name, and a
\* name holding characters a path would escape.
Roles == {<< >>, <<"readall">>, <<"a", "/", "?">>}

NoBody == "nil"

Bodies == {"json-bytes", "text-bytes"}

NoCtx == "nil"

Contexts == {"ctx1"}

NoErr == "nil"

EmptyHeader == << >>

\* http.CanonicalMIMEHeaderKey on the keys the model draws.
Canon(k) ==
    CASE k = "content-type" -> "Content-Type"
      [] k = "x-opaque-id" -> "X-Opaque-Id"
      [] OTHER -> k

\* http.Header.Add: append v to the values of the canonical key.
HeaderAdd(h, k, v) ==
    LET c == Canon(k)
    IN  IF c \in DOMAIN h
        THEN [h EXCEPT ![c] = Append(@, v)]
        ELSE [x \in DOMAIN h \cup {c} |-> IF x = c THEN <<v>> ELSE h[x]]

\* http.Header.Set: the canonical key has the single value v.
HeaderSet(h, k, v) ==
    LET c == Canon(k)
    IN  [x \in DOMAIN h \cup {c} |-> IF x = c THEN <<v>> ELSE h[x]]

----------------------------------------------------------------------------
\* The request configuration and its options

\* RoleCreateRequest{Role: role} and its three siblings: every other field
\* has its zero value.
NewRequestConfig(role) ==
    [Role |-> role,
     Body |-> NoBody,
     MasterTimeout |-> 0,
     ClusterManagerTimeout |-> 0,
     Timeout |-> 0,
     WaitForActiveShards |-> "",
     Pretty |-> FALSE,
     Human |-> FALSE,
     ErrorTrace |-> FALSE,
     FilterPath |-> << >>,
     Header |-> EmptyHeader,
     ctx |-> NoCtx]

WithContext(c, v) == [c EXCEPT !.ctx = v]

WithBody(c, v) == [c EXCEPT !.Body = v]

WithMasterTimeout(c, v) == [c EXCEPT !.MasterTimeout = v]

WithClusterManagerTimeout(c, v) == [c EXCEPT !.ClusterManagerTimeout = v]

\* WithTimeout, were it to set the cluster-manager timeout as well.
WithTimeoutBoth(c, v) == [c EXCEPT !.Timeout = v, !.ClusterManagerTimeout = v]

WithTimeout(c, v) == [c EXCEPT !.Timeout = v]

WithWaitForActiveShards(c, v) == [c EXCEPT !.WaitForActiveShards = v]

WithPretty(c) == [c EXCEPT !.Pretty = TRUE]

WithHuman(c) == [c EXCEPT !.Human = TRUE]

WithErrorTrace(c) == [c EXCEPT !.ErrorTrace = TRUE]

WithFilterPath(c, v) == [c EXCEPT !.FilterPath = v]

\* for k, v := range h { r.Header.Add(k, v) }.  The map h is the set of its
\* <<key, value>> entries; the maps drawn have keys with distinct canonical
\* forms, so the order of the range is immaterial.
RECURSIVE AddEach(_, _)
AddEach(hdr, h) ==
    IF h = {} THEN hdr
    ELSE LET e == CHOOSE x \in h : TRUE
         IN  AddEach(HeaderAdd(hdr, e[1], e[2]), h \ {e})

\* WithHeader, were it to replace the values of a key.
RECURSIVE SetEach(_, _)
SetEach(hdr, h) ==
    IF h = {} THEN hdr
    ELSE LET e == CHOOSE x \in h : TRUE
         IN  SetEach(HeaderSet(hdr, e[1], e[2]), h \ {e})

WithHeaderSet(c, h) == [c EXCEPT !.Header = SetEach(@, h)]

WithHeader(c, h) == [c EXCEPT !.Header = AddEach(@, h)]

\* WithOpaqueID, were it to add its value as WithHeader does.
WithOpaqueIDAdd(c, s) == [c EXCEPT !.Header = HeaderAdd(@, "X-Opaque-Id", s)]

WithOpaqueID(c, s) == [c EXCEPT !.Header = HeaderSet(@, "X-Opaque-Id", s)]

\* An option as the name of its constructor and its argument: a duration n,
\* a string, reader or context s, a list l or a map h.
Opt(name, n, s, l, h) == [name |-> name, n |-> n, s |-> s, l |-> l, h |-> h]

\* The options a caller may pass.
Options ==
    {Opt("WithContext", 0, x, << >>, {}) : x \in Contexts}
    \cup {Opt("WithBody", 0, x, << >>, {}) : x \in Bodies}
    \cup {Opt("WithMasterTimeout", 5, "", << >>, {})}
    \cup {Opt("WithClusterManagerTimeout", 5, "", << >>, {})}
    \cup {Opt("WithTimeout", x, "", << >>, {}) : x \in {0, 5}}
    \cup {Opt("WithWaitForActiveShards", 0, "1", << >>, {})}
    \cup {Opt("WithPretty", 0, "", << >>, {})}
    \cup {Opt("WithHuman", 0, "", << >>, {})}
    \cup {Opt("WithErrorTrace", 0, "", << >>, {})}
    \cup {Opt("WithFilterPath", 0, "", <<"a", "b">>, {})}
    \cup {Opt("WithHeader", 0, "", << >>, x) :
            x \in {{<<"X", "1">>}, {<<"X", "2">>}, {<<"content-type", "text/plain">>},
                   {<<"x-opaque-id", "id-c">>}}}
    \cup {Opt("WithOpaqueID", 0, x, << >>, {}) : x \in {"id-a", "id-b"}}

\* f(&r) for one option f.
ApplyOption(opt, c) ==
    CASE opt.name = "WithContext" -> WithContext(c, opt.s)
      [] opt.name = "WithBody" -> WithBody(c, opt.s)
      [] opt.name = "WithMasterTimeout" -> WithMasterTimeout(c, opt.n)
      [] opt.name = "WithClusterManagerTimeout" -> WithClusterManagerTimeout(c, opt.n)
      [] opt.name = "WithTimeout" -> WithTimeout(c, opt.n)
      [] opt.name = "WithWaitForActiveShards" -> WithWaitForActiveShards(c, opt.s)
      [] opt.name = "WithPretty" -> WithPretty(c)
      [] opt.name = "WithHuman" -> WithHuman(c)
      [] opt.name = "WithErrorTrace" -> WithErrorTrace(c)
      [] opt.name = "WithFilterPath" -> WithFilterPath(c, opt.l)
      [] opt.name = "WithHeader" -> WithHeader(c, opt.h)
      [] opt.name = "WithOpaqueID" -> WithOpaqueID(c, opt.s)

\* for _, f := range o { f(&r) } from a given configuration.
RECURSIVE ApplyAll(_, _)
ApplyAll(opts, c) ==
    IF opts = << >> THEN c
    ELSE ApplyAll(Tail(opts), ApplyOption(Head(opts), c))

----------------------------------------------------------------------------
\* Do: from the configuration to the request

RolesPrefix == <<"/", "_plugins", "/", "_security", "/", "api", "/", "roles", "/">>

RolesMappingPrefix ==
    <<"/", "_plugins", "/", "_security", "/", "api", "/", "rolesmapping", "/">>

headerContentType == "Content-Type"

headerContentTypeJSON == <<"application/json">>

\* The duration helper: a duration (in milliseconds here) as its wire string.
formatDuration(d) == <<ToString(d), "ms">>

\* strings.Join.
RECURSIVE Join(_, _)
Join(list, sep) ==
    IF list = << >> THEN << >>
    ELSE IF Len(list) = 1 THEN <<list[1]>>
    ELSE <<list[1], sep>> \o Join(Tail(list), sep)

\* params[k] = v.
Put(m, k, v) == [x \in DOMAIN m \cup {k} |-> IF x = k THEN v ELSE m[x]]

\* Params, were the deprecated alias dropped when its successor is set.
ParamsReconciled(c) ==
    LET p0 == << >>
        p1 == IF c.MasterTimeout # 0 /\ c.ClusterManagerTimeout = 0
              THEN Put(p0, "master_timeout", formatDuration(c.MasterTimeout)) ELSE p0
        p2 == IF c.ClusterManagerTimeout # 0
              THEN Put(p1, "cluster_manager_timeout",
                       formatDuration(c.ClusterManagerTimeout))
              ELSE p1
        p3 == IF c.Timeout # 0
              THEN Put(p2, "timeout", formatDuration(c.Timeout)) ELSE p2
        p4 == IF c.WaitForActiveShards # ""
              THEN Put(p3, "wait_for_active_shards", <<c.WaitForActiveShards>>) ELSE p3
        p5 == IF c.Pretty THEN Put(p4, "pretty", <<"true">>) ELSE p4
        p6 == IF c.Human THEN Put(p5, "human", <<"true">>) ELSE p5
        p7 == IF c.ErrorTrace THEN Put(p6, "error_trace", <<"true">>) ELSE p6
        p8 == IF Len(c.FilterPath) > 0
              THEN Put(p7, "filter_path", Join(c.FilterPath, ",")) ELSE p7
    IN  p8

\* The params map of a create/update Do: one entry per non-default field.
Params(c) ==
    LET p0 == << >>
        p1 == IF c.MasterTimeout # 0
              THEN Put(p0, "master_timeout", formatDuration(c.MasterTimeout)) ELSE p0
        p2 == IF c.ClusterManagerTimeout # 0
              THEN Put(p1, "cluster_manager_timeout",
                       formatDuration(c.ClusterManagerTimeout))
              ELSE p1
        p3 == IF c.Timeout # 0
              THEN Put(p2, "timeout", formatDuration(c.Timeout)) ELSE p2
        p4 == IF c.WaitForActiveShards # ""
              THEN Put(p3, "wait_for_active_shards", <<c.WaitForActiveShards>>) ELSE p3
        p5 == IF c.Pretty THEN Put(p4, "pretty", <<"true">>) ELSE p4
        p6 == IF c.Human THEN Put(p5, "human", <<"true">>) ELSE p5
        p7 == IF c.ErrorTrace THEN Put(p6, "error_trace", <<"true">>) ELSE p6
        p8 == IF Len(c.FilterPath) > 0
              THEN Put(p7, "filter_path", Join(c.FilterPath, ",")) ELSE p7
    IN  p8

\* url.QueryEscape on the pieces the model draws: the comma is escaped.
QueryEscape(v) == [i \in 1..Len(v) |-> IF v[i] = "," THEN "%2C" ELSE v[i]]

\* url.QueryUnescape, its inverse.
QueryUnescape(v) == [i \in 1..Len(v) |-> IF v[i] = "%2C" THEN "," ELSE v[i]]

\* The keys of the query in the order url.Values.Encode writes them (sorted).
SortedKeys ==
    <<"cluster_manager_timeout", "error_trace", "filter_path", "human",
      "master_timeout", "pretty", "timeout", "wait_for_active_shards">>

\* url.Values.Encode: the "k=v" pieces of the query string, sorted by key,
\* each value escaped.  The empty sequence is the empty query string.
RECURSIVE EncodeFrom(_, _)
EncodeFrom(q, i) ==
    IF i > Len(SortedKeys) THEN << >>
    ELSE LET k == SortedKeys[i]
         IN  (IF k \in DOMAIN q THEN <<[k |-> k, v |-> QueryEscape(q[k])]>> ELSE << >>)
             \o EncodeFrom(q, i + 1)

Encode(q) == EncodeFrom(q, 1)

\* if len(params) > 0 { q := req.URL.Query(); q.Set(k, v)...; RawQuery = q.Encode() }
SetQuery(rq, params) ==
    IF Cardinality(DOMAIN params) > 0
    THEN [rq EXCEPT !.RawQuery = Encode(params)]
    ELSE rq

\* if r.Body != nil { req.Header[headerContentType] = headerContentTypeJSON }
SetContentType(rq, c) ==
    IF c.Body # NoBody
    THEN [rq EXCEPT !.Header = Put(@, headerContentType, headerContentTypeJSON)]
    ELSE rq

\* for _, v := range vv { req.Header.Add(k, v) }
RECURSIVE AddValues(_, _, _)
AddValues(h, k, vv) ==
    IF vv = << >> THEN h
    ELSE AddValues(HeaderAdd(h, k, Head(vv)), k, Tail(vv))

\* for k, vv := range r.Header { ... }: the keys of a header set are distinct
\* canonical keys, so the order of the range is immaterial.
RECURSIVE AddKeys(_, _, _)
AddKeys(h, ch, keys) ==
    IF keys = {} THEN h
    ELSE LET k == CHOOSE x \in keys : TRUE
         IN  AddKeys(AddValues(h, k, ch[k]), ch, keys \ {k})

\* The merge of the caller's headers into the request's.
MergeHeader(rq, c) ==
    IF Cardinality(DOMAIN c.Header) > 0
    THEN IF Cardinality(DOMAIN rq.Header) = 0
         THEN [rq EXCEPT !.Header = c.Header]
         ELSE [rq EXCEPT !.Header = AddKeys(@, c.Header, DOMAIN c.Header)]
    ELSE rq

\* if ctx != nil { req = req.WithContext(ctx) }
BindContext(rq, ctx) == IF ctx # NoCtx THEN [rq EXCEPT !.ctx = ctx] ELSE rq

\* The request helper, when it succeeds: method, path and body as given, no
\* query, an empty header set and no context of the caller.
newRequest(method, path, body) ==
    [Method |-> method, Path |-> path, RawQuery |-> << >>,
     Header |-> EmptyHeader, Body |-> body, ctx |-> NoCtx]

\* The request of a create/update Do, from the one newRequest returned.
CreateRequest(prefix, c, ctx) ==
    BindContext(
        MergeHeader(
            SetContentType(
                SetQuery(newRequest("PUT", prefix \o c.Role, c.Body), Params(c)),
                c),
            c),
        ctx)

\* The request of a delete Do.
DeleteRequest(prefix, c, ctx) ==
    BindContext(newRequest("DELETE", prefix \o c.Role, NoBody), ctx)

RoleCreateRequest(c, ctx) == CreateRequest(RolesPrefix, c, ctx)

\* The role-mapping create Do, were it left with the path of the role Do.
RoleMappingCreateRequestRolesPath(c, ctx) == CreateRequest(RolesPrefix, c, ctx)

RoleMappingCreateRequest(c, ctx) == CreateRequest(RolesMappingPrefix, c, ctx)

RoleDeleteRequest(c, ctx) == DeleteRequest(RolesPrefix, c, ctx)

\* The role-mapping delete Do, were it to serialise the query parameters.
RoleMappingDeleteRequestWithQuery(c, ctx) ==
    BindContext(
        SetQuery(newRequest("DELETE", RolesMappingPrefix \o c.Role, NoBody), Params(c)),
        ctx)

RoleMappingDeleteRequest(c, ctx) == DeleteRequest(RolesMappingPrefix, c, ctx)

----------------------------------------------------------------------------
\* The transport and the response

NoReq == [nil |-> TRUE]

NoRes == [nil |-> TRUE]

\* The errors a transport reports, and the one the request helper reports.
TransportErrors == {"network-error", "context-canceled"}

ConstructionError == "construction-error"

\* The body stream of a transport response: unread and open.
Stream == [name |-> "stream", read |-> 0, closed |-> FALSE]

ResHeader == [x \in {"Content-Length"} |-> <<"2">>]

TransportResponses ==
    {[StatusCode |-> s, Header |-> ResHeader, Body |-> Stream] : s \in {200, 404, 500}}

\* What Perform returns: a response, an error, or an error with a response.
TransportOutcomes ==
    {[res |-> x, err |-> NoErr] : x \in TransportResponses}
    \cup {[res |-> NoRes, err |-> e] : e \in TransportErrors}
    \cup {[res |-> [StatusCode |-> 500, Header |-> ResHeader, Body |-> Stream],
           err |-> "network-error"]}

\* Wrap, were it to return the response the transport gave with its error.
WrapKeepsResponse(t) ==
    IF t.err # NoErr /\ t.res = NoRes
    THEN [res |-> NoRes, err |-> t.err]
    ELSE [res |-> [StatusCode |-> t.res.StatusCode,
                   Body |-> t.res.Body,
                   Header |-> t.res.Header],
          err |-> t.err]

\* Wrap, were it to drain and close the body of a failure status.
WrapClosesFailures(t) ==
    IF t.err # NoErr
    THEN [res |-> NoRes, err |-> t.err]
    ELSE [res |-> [StatusCode |-> t.res.StatusCode,
                   Body |-> IF t.res.StatusCode >= 400
                            THEN [t.res.Body EXCEPT !.closed = TRUE]
                            ELSE t.res.Body,
                   Header |-> t.res.Header],
          err |-> NoErr]

\* The end of Do: the transport's error alone, or the wrapped response.
Wrap(t) ==
    IF t.err # NoErr
    THEN [res |-> NoRes, err |-> t.err]
    ELSE [res |-> [StatusCode |-> t.res.StatusCode,
                   Body |-> t.res.Body,
                   Header |-> t.res.Header],
          err |-> NoErr]

\* AfterPerform, were a failed attempt made once more.
AfterPerformRetry(t, n) == IF t.err # NoErr /\ n < 2 THEN "built" ELSE "done"

\* Where Do stands after Perform returned: it returns, whatever the outcome.
AfterPerform(t, n) == "done"

\* The request an endpoint's Do builds.
KindRequest(k, c, ctx) ==
    CASE k = "RoleCreate" -> RoleCreateRequest(c, ctx)
      [] k = "RoleMappingCreate" -> RoleMappingCreateRequest(c, ctx)
      [] k = "RoleDelete" -> RoleDeleteRequest(c, ctx)
      [] k = "RoleMappingDelete" -> RoleMappingDeleteRequest(c, ctx)

----------------------------------------------------------------------------
\* Concurrent calls through one endpoint function

\* The calls in flight at once.
Calls == {"c1", "c2"}

\* No concurrent call is modelled: the state of the single call stands alone.
NoCells == [c \in Calls |-> NewRequestConfig(<< >>)]

NoCalls == [c \in Calls |-> [role |-> << >>, o |-> << >>, pc |-> "none",
                             req |-> NoReq, ret |-> [res |-> NoRes, err |-> NoErr]]]

\* ConfigCell, were r declared once in the constructor, outside the closure.
ConfigCellShared(c) == "c1"

\* Where the configuration of a call lives: var r is declared inside the
\* returned closure, so each invocation has a variable of its own.
ConfigCell(c) == c

\* The options and the transport outcomes the concurrent calls draw.
ConcOptions ==
    {Opt("WithTimeout", 5, "", << >>, {}),
     Opt("WithHeader", 0, "", << >>, {<<"X", "1">>}),
     Opt("WithBody", 0, "json-bytes", << >>, {}),
     Opt("WithContext", 0, "ctx1", << >>, {})}

ConcRoles == {<< >>, <<"readall">>}

ConcOutcomes ==
    {t \in TransportOutcomes :
        \/ t.err = NoErr /\ t.res.StatusCode = 200
        \/ t.err = "network-error" /\ t.res = NoRes}

----------------------------------------------------------------------------
\* The call

Init ==
    /\ kind \in Kinds
    /\ \E role \in Roles : r = NewRequestConfig(role)
    /\ o = << >>
    /\ pc = "options"
    /\ req = NoReq
    /\ performs = 0
    /\ tres = [res |-> NoRes, err |-> NoErr]
    /\ ret = [res |-> NoRes, err |-> NoErr]
    /\ cell = NoCells
    /\ calls = NoCalls

\* One turn of the loop over the options: f(&r).
ApplyOpt ==
    /\ pc = "options"
    /\ Len(o) < MaxOpts
    /\ \E opt \in Options :
        /\ r' = ApplyOption(opt, r)
        /\ o' = Append(o, opt)
    /\ UNCHANGED <<kind, pc, req, performs, tres, ret, cell, calls>>

\* r.Do(r.ctx, t) up to the call of the transport: the request helper fails
\* and Do returns its error, or the request is built.  The options are out
\* of scope in Do.
Do(k, request) ==
    /\ pc = "options"
    /\ kind = k
    /\ o' = << >>
    /\ \E ok \in BOOLEAN :
        IF ok
        THEN /\ req' = request
             /\ pc' = "built"
             /\ UNCHANGED ret
        ELSE /\ ret' = [res |-> NoRes, err |-> ConstructionError]
             /\ pc' = "done"
             /\ UNCHANGED req
    /\ UNCHANGED <<kind, r, performs, tres, cell, calls>>

RoleCreateDo == Do("RoleCreate", RoleCreateRequest(r, r.ctx))

RoleMappingCreateDo == Do("RoleMappingCreate", RoleMappingCreateRequest(r, r.ctx))

RoleDeleteDo == Do("RoleDelete", RoleDeleteRequest(r, r.ctx))

RoleMappingDeleteDo == Do("RoleMappingDelete", RoleMappingDeleteRequest(r, r.ctx))

\* transport.Perform(req) and the rest of Do.
Perform ==
    /\ pc = "built"
    /\ performs' = performs + 1
    /\ \E t \in TransportOutcomes :
        /\ tres' = t
        /\ ret' = Wrap(t)
        /\ pc' = AfterPerform(t, performs')
    /\ UNCHANGED <<kind, r, o, req, cell, calls>>

Next ==
    \/ ApplyOpt
    \/ RoleCreateDo
    \/ RoleMappingCreateDo
    \/ RoleDeleteDo
    \/ RoleMappingDeleteDo
    \/ Perform

Spec == Init /\ [][Next]_vars

\* The headers a transport writes on the request it is given: none, one of
\* its own, or one the caller may have set too.
TransportWrites == {{}, {<<"User-Agent", "client">>}, {<<"X", "t">>}}

\* req.Header.Set(k, v) for each header the transport writes.
RECURSIVE TransportSet(_, _)
TransportSet(h, w) ==
    IF w = {} THEN h
    ELSE LET e == CHOOSE x \in w : TRUE
         IN  TransportSet(HeaderSet(h, e[1], e[2]), w \ {e})

\* The request of a create/update Do as it reaches the merge of the headers.
CreateBeforeMerge(c) ==
    SetContentType(SetQuery(newRequest("PUT", c.Role, c.Body), Params(c)), c)

\* req.Header = r.Header: the request and the configuration hold the same
\* map when the merge takes its first branch; a delete Do never reads
\* r.Header.
SharesHeader(k, c) ==
    /\ k \in CreateKinds
    /\ Cardinality(DOMAIN c.Header) > 0
    /\ Cardinality(DOMAIN CreateBeforeMerge(c).Header) = 0

\* transport.Perform(req) with a transport that writes headers on the
\* request, and the rest of Do: a write to a map the configuration shares is
\* a write to the configuration's header set.
PerformWrites ==
    /\ pc = "built"
    /\ performs' = performs + 1
    /\ \E w \in TransportWrites :
        /\ req' = [req EXCEPT !.Header = TransportSet(@, w)]
        /\ r' = IF SharesHeader(kind, r)
                THEN [r EXCEPT !.Header = TransportSet(@, w)]
                ELSE r
    /\ \E t \in TransportOutcomes :
        /\ tres' = t
        /\ ret' = Wrap(t)
        /\ pc' = AfterPerform(t, performs')
    /\ UNCHANGED <<kind, o, cell, calls>>

NextWrites ==
    \/ ApplyOpt
    \/ RoleCreateDo
    \/ RoleMappingCreateDo
    \/ RoleDeleteDo
    \/ RoleMappingDeleteDo
    \/ PerformWrites

SpecWrites == Init /\ [][NextWrites]_vars

\* Two calls through the same endpoint function, with the same transport.
InitConc ==
    /\ kind \in Kinds
    /\ r = NewRequestConfig(<< >>)
    /\ o = << >>
    /\ pc = "concurrent"
    /\ req = NoReq
    /\ performs = 0
    /\ tres = [res |-> NoRes, err |-> NoErr]
    /\ ret = [res |-> NoRes, err |-> NoErr]
    /\ cell = NoCells
    /\ \E roles \in [Calls -> ConcRoles] :
          calls = [c \in Calls |-> [role |-> roles[c], o |-> << >>, pc |-> "start",
                                    req |-> NoReq,
                                    ret |-> [res |-> NoRes, err |-> NoErr]]]

single == <<kind, r, o, pc, req, performs, tres, ret>>

\* var r = RoleCreateRequest{Role: role} in the invocation c.
ConcNew(c) ==
    /\ calls[c].pc = "start"
    /\ cell' = [cell EXCEPT ![ConfigCell(c)] = NewRequestConfig(calls[c].role)]
    /\ calls' = [calls EXCEPT ![c].pc = "options"]
    /\ UNCHANGED single

\* One turn of the option loop of the invocation c.
ConcApplyOpt(c) ==
    /\ calls[c].pc = "options"
    /\ Len(calls[c].o) < MaxConcOpts
    /\ \E opt \in ConcOptions :
        /\ cell' = [cell EXCEPT ![ConfigCell(c)] = ApplyOption(opt, @)]
        /\ calls' = [calls EXCEPT ![c].o = Append(@, opt)]
    /\ UNCHANGED single

\* r.Do(r.ctx, t) of the invocation c, up to the call of the transport.
ConcDo(c) ==
    /\ calls[c].pc = "options"
    /\ \E ok \in BOOLEAN :
        LET cfg == cell[ConfigCell(c)]
        IN  calls' =
              IF ok
              THEN [calls EXCEPT ![c].req = KindRequest(kind, cfg, cfg.ctx),
                                 ![c].pc = "built"]
              ELSE [calls EXCEPT ![c].ret = [res |-> NoRes, err |-> ConstructionError],
                                 ![c].pc = "done"]
    /\ UNCHANGED <<single, cell>>

\* transport.Perform(req) of the invocation c and the rest of its Do.
ConcPerform(c) ==
    /\ calls[c].pc = "built"
    /\ \E t \in ConcOutcomes :
          calls' = [calls EXCEPT ![c].ret = Wrap(t), ![c].pc = "done"]
    /\ UNCHANGED <<single, cell>>

NextConc ==
    \/ \E c \in Calls : ConcNew(c)
    \/ \E c \in Calls : ConcApplyOpt(c)
    \/ \E c \in Calls : ConcDo(c)
    \/ \E c \in Calls : ConcPerform(c)

SpecConc == InitConc /\ [][NextConc]_vars

----------------------------------------------------------------------------
\* Properties

\* The request was handed to the transport.
Dispatched == performs > 0

\* The method and the path prefix of each endpoint.
EndpointMethod == [k \in Kinds |-> IF k \in CreateKinds THEN "PUT" ELSE "DELETE"]

EndpointPrefix ==
    [k \in Kinds |->
        IF k \in {"RoleCreate", "RoleDelete"}
        THEN <<"/", "_plugins", "/", "_security", "/", "api", "/", "roles", "/">>
        ELSE <<"/", "_plugins", "/", "_security", "/", "api", "/", "rolesmapping", "/">>]

\* C1: the request handed to the transport by each of the four operations has
\* the method of its endpoint, and its path is the fixed prefix of the
\* endpoint followed by the identifier, verbatim and once, whatever the
\* identifier (the empty one included) and whatever the options.
C1_MethodAndPath ==
    Dispatched =>
        LET pre == EndpointPrefix[kind]
        IN  /\ req.Method = EndpointMethod[kind]
            /\ Len(req.Path) = Len(pre) + Len(r.Role)
            /\ SubSeq(req.Path, 1, Len(pre)) = pre
            /\ SubSeq(req.Path, Len(pre) + 1, Len(req.Path)) = r.Role

\* A role-mapping create with an identifier that needs escaping and with
\* options applied was dispatched.
C1_Witness ==
    /\ Dispatched
    /\ kind = "RoleMappingCreate"
    /\ r.Role = <<"a", "/", "?">>
    /\ r.Timeout = 5
    /\ r.Pretty
    /\ req.Path[Len(req.Path)] = "?"

\* The configuration before the last two options were applied.
BeforeLastTwo == ApplyAll(SubSeq(o, 1, Len(o) - 2), NewRequestConfig(r.Role))

\* The last two options applied (A, then B).
OptA == o[Len(o) - 1]

OptB == o[Len(o)]

HeaderOptions == {"WithHeader", "WithOpaqueID"}

\* A and B set the same field of the configuration.
SameField(a, b) ==
    \/ a.name = b.name
    \/ a.name \in HeaderOptions /\ b.name \in HeaderOptions

\* C2 as stated: whenever the last two options applied set the same field,
\* the header-setting options included, the configuration is the one the
\* later option alone would have produced.
C2_LastWriteWinsEveryOption ==
    (pc = "options" /\ Len(o) >= 2 /\ SameField(OptA, OptB))
        => r = ApplyOption(OptB, BeforeLastTwo)

\* B overwrites what A wrote: they are built by the same constructor other
\* than WithHeader, or B is WithOpaqueID and A wrote only the X-Opaque-Id key.
Overwrites(a, b) ==
    \/ a.name = b.name /\ b.name # "WithHeader"
    \/ /\ b.name = "WithOpaqueID"
       /\ a.name = "WithHeader"
       /\ \A e \in a.h : Canon(e[1]) = "X-Opaque-Id"

\* C2 (amended): when the last two options applied are built by the same
\* constructor other than WithHeader (WithOpaqueID included), or are a
\* WithHeader of the X-Opaque-Id key alone followed by WithOpaqueID, the
\* configuration is the one the later option alone would have produced; and
\* a WithHeader after a WithHeader keeps the earlier values of a key before
\* its own.
C2_LastWriteWins ==
    (pc = "options" /\ Len(o) >= 2) =>
        /\ Overwrites(OptA, OptB) => r = ApplyOption(OptB, BeforeLastTwo)
        /\ (OptA.name = "WithHeader" /\ OptB.name = "WithHeader") =>
              \A e \in OptA.h :
                 \E i \in 1..Len(r.Header[Canon(e[1])]) :
                    r.Header[Canon(e[1])][i] = e[2]

\* After one option, two calls of WithOpaqueID with different identifiers
\* were applied, and the header holds the later one alone.
C2_Witness ==
    /\ pc = "options"
    /\ Len(o) = 3
    /\ OptA.name = "WithOpaqueID"
    /\ OptB.name = "WithOpaqueID"
    /\ OptA.s # OptB.s
    /\ r.Header["X-Opaque-Id"] = <<OptB.s>>

\* The header set before the last two options held no X.
NoXBefore == "X" \notin DOMAIN BeforeLastTwo.Header

\* C3: the header option with {X: 1} and then with {X: 2}, applied to a
\* configuration with no X header, leaves X with the values 1, 2 in that
\* order; and a create/update call dispatches every caller header with the
\* values the configuration holds for it, in their order, with or without a
\* body.
C3_HeadersAccumulate ==
    /\ ( /\ pc = "options"
         /\ Len(o) >= 2
         /\ OptA = Opt("WithHeader", 0, "", << >>, {<<"X", "1">>})
         /\ OptB = Opt("WithHeader", 0, "", << >>, {<<"X", "2">>})
         /\ NoXBefore )
       => r.Header["X"] = <<"1", "2">>
    /\ (Dispatched /\ kind \in CreateKinds)
       => \A k \in DOMAIN r.Header \ {"Content-Type"} :
             /\ k \in DOMAIN req.Header
             /\ req.Header[k] = r.Header[k]

\* A create call with a body was dispatched with both values of X, in order.
C3_Witness ==
    /\ Dispatched
    /\ kind = "RoleCreate"
    /\ r.Body # NoBody
    /\ "X" \in DOMAIN req.Header
    /\ req.Header["X"] = <<"1", "2">>

\* C4: a create/update request dispatched with a body has the JSON media
\* type as its Content-Type header, whatever the caller's headers; one
\* dispatched without a body and without a caller's Content-Type has none.
C4_ContentTypeJSON ==
    (Dispatched /\ kind \in CreateKinds) =>
        /\ r.Body # NoBody =>
              /\ "Content-Type" \in DOMAIN req.Header
              /\ req.Header["Content-Type"] = <<"application/json">>
        /\ (r.Body = NoBody /\ "Content-Type" \notin DOMAIN r.Header) =>
              "Content-Type" \notin DOMAIN req.Header

\* The query of the dispatched request, decoded: key to value.
QueryKeys == {req.RawQuery[i].k : i \in 1..Len(req.RawQuery)}

QueryValue(k) ==
    LET i == CHOOSE j \in 1..Len(req.RawQuery) : req.RawQuery[j].k = k
    IN  QueryUnescape(req.RawQuery[i].v)

\* The recognized fields of the configuration whose value is not the default.
NonDefaultKeys ==
    {k \in {"master_timeout"} : r.MasterTimeout # 0}
    \cup {k \in {"cluster_manager_timeout"} : r.ClusterManagerTimeout # 0}
    \cup {k \in {"timeout"} : r.Timeout # 0}
    \cup {k \in {"wait_for_active_shards"} : r.WaitForActiveShards # ""}
    \cup {k \in {"pretty"} : r.Pretty}
    \cup {k \in {"human"} : r.Human}
    \cup {k \in {"error_trace"} : r.ErrorTrace}
    \cup {k \in {"filter_path"} : r.FilterPath # << >>}

\* C5: the query keys of a dispatched create/update request are exactly the
\* recognized fields with a non-default value, each key once; the flags have
\* the value "true", the filter path the comma-joined list; with every field
\* default the query string is empty; and a timeout set and then reset to
\* zero by the next option is zero, hence absent.
C5_QueryKeys ==
    /\ (Dispatched /\ kind \in CreateKinds) =>
          /\ QueryKeys = NonDefaultKeys
          /\ Len(req.RawQuery) = Cardinality(NonDefaultKeys)
          /\ \A k \in QueryKeys \cap {"pretty", "human", "error_trace"} :
                QueryValue(k) = <<"true">>
          /\ "filter_path" \in QueryKeys =>
                /\ Len(QueryValue("filter_path")) = 2 * Len(r.FilterPath) - 1
                /\ \A i \in 1..Len(QueryValue("filter_path")) :
                      QueryValue("filter_path")[i] =
                          IF i % 2 = 1 THEN r.FilterPath[(i + 1) \div 2] ELSE ","
          /\ "wait_for_active_shards" \in QueryKeys =>
                QueryValue("wait_for_active_shards") = <<r.WaitForActiveShards>>
          /\ NonDefaultKeys = {} => req.RawQuery = << >>
    /\ ( /\ pc = "options"
         /\ Len(o) >= 2
         /\ OptA.name = "WithTimeout"
         /\ OptB = Opt("WithTimeout", 0, "", << >>, {}) )
       => r.Timeout = 0

\* A create was dispatched with both timeout aliases and the filter path
\* set, and its query holds the three keys.
C5_Witness ==
    /\ Dispatched
    /\ kind = "RoleCreate"
    /\ r.MasterTimeout # 0
    /\ r.ClusterManagerTimeout # 0
    /\ r.FilterPath = <<"a", "b">>
    /\ QueryKeys = {"master_timeout", "cluster_manager_timeout", "filter_path"}

\* C6: the request a delete operation dispatches carries the body set with
\* WithBody, the headers set with WithHeader and WithOpaqueID, and the
\* context set with WithContext.
C6_DeleteForwardsBodyHeaderContext ==
    (Dispatched /\ kind \in DeleteKinds) =>
        /\ req.Body = r.Body
        /\ \A k \in DOMAIN r.Header :
              k \in DOMAIN req.Header /\ req.Header[k] = r.Header[k]
        /\ req.ctx = r.ctx

\* The configuration with every query-parameter field at its default.
WithoutQueryOptions(c) ==
    [c EXCEPT !.MasterTimeout = 0, !.ClusterManagerTimeout = 0, !.Timeout = 0,
              !.WaitForActiveShards = "", !.Pretty = FALSE, !.Human = FALSE,
              !.ErrorTrace = FALSE, !.FilterPath = << >>]

C8_TransportErrorUnchanged ==
    (pc = "done" /\ Dispatched /\ tres.err # NoErr) =>
        /\ ret.err = tres.err
        /\ ret.res = NoRes

\* The transport returned an error together with a response.
C8_Witness ==
    /\ pc = "done"
    /\ Dispatched
    /\ tres.err = "network-error"
    /\ tres.res # NoRes
    /\ ret.err = "network-error"

\* C9: the transport is invoked at most once in a call: once when the request
\* was built, whether Perform then succeeds or fails, and never when the
\* construction failed, the call returning the construction error and no
\* Response.
C9_PerformAtMostOnce ==
    /\ performs <= 1
    /\ pc \in {"options", "built"} => performs = 0
    /\ pc = "done" =>
          IF req = NoReq
          THEN /\ performs = 0
               /\ ret.err = ConstructionError
               /\ ret.res = NoRes
          ELSE performs = 1

\* A call ended after a failed Perform.
C9_Witness ==
    /\ pc = "done"
    /\ performs = 1
    /\ tres.err = "context-canceled"
    /\ ret.err = "context-canceled"

\* C10: a call ends with an error and no Response, or with a Response and
\* no error; when the transport returns a response without error, whatever
\* its status code, the call returns no error and a Response with the status
\* code, the header set and the body stream (unread, open) of that response.
C10_ResponseOrError ==
    pc = "done" =>
        /\ (ret.err # NoErr /\ ret.res = NoRes) \/ (ret.err = NoErr /\ ret.res # NoRes)
        /\ (Dispatched /\ tres.err = NoErr) =>
              /\ ret.err = NoErr
              /\ ret.res # NoRes
              /\ ret.res.StatusCode = tres.res.StatusCode
              /\ ret.res.Header = tres.res.Header
              /\ ret.res.Body = tres.res.Body
              /\ ret.res.Body.read = 0
              /\ ~ret.res.Body.closed

\* A call ended with the Response of a 404.
C10_Witness ==
    /\ pc = "done"
    /\ Dispatched
    /\ tres.err = NoErr
    /\ tres.res.StatusCode = 404
    /\ ret.err = NoErr
    /\ ret.res.StatusCode = 404

\* The configuration and the request of a call that runs alone.
AloneConfig(c) == ApplyAll(calls[c].o, NewRequestConfig(calls[c].role))

AloneRequest(c) == KindRequest(kind, AloneConfig(c), AloneConfig(c).ctx)

\* C11: in every interleaving of two calls through one endpoint function,
\* the configuration of each call is the one its own identifier and options
\* produce, and the request it hands to the transport is the one it would
\* hand over running alone.
C11_CallsIsolated ==
    \A c \in Calls :
        /\ calls[c].pc \in {"options", "built", "done"} =>
              cell[ConfigCell(c)] = AloneConfig(c)
        /\ calls[c].req # NoReq => calls[c].req = AloneRequest(c)

\* Both calls handed over their requests, built from different identifiers
\* and different options, the second having started before the first ended.
C11_Witness ==
    /\ calls["c1"].pc = "done"
    /\ calls["c2"].pc = "built"
    /\ calls["c1"].role # calls["c2"].role
    /\ Len(calls["c1"].o) = 2
    /\ Len(calls["c2"].o) = 2
    /\ calls["c1"].o[1].name = "WithHeader"
    /\ calls["c2"].o[1].name = "WithTimeout"
    /\ calls["c1"].req # NoReq
    /\ calls["c1"].req # calls["c2"].req

\* The configuration before the last option was applied.
BeforeLast == ApplyAll(SubSeq(o, 1, Len(o) - 1), NewRequestConfig(r.Role))

\* The field of the configuration an option writes.
FieldOf(name) ==
    CASE name = "WithContext" -> "ctx"
      [] name = "WithBody" -> "Body"
      [] name = "WithMasterTimeout" -> "MasterTimeout"
      [] name = "WithClusterManagerTimeout" -> "ClusterManagerTimeout"
      [] name = "WithTimeout" -> "Timeout"
      [] name = "WithWaitForActiveShards" -> "WaitForActiveShards"
      [] name = "WithPretty" -> "Pretty"
      [] name = "WithHuman" -> "Human"
      [] name = "WithErrorTrace" -> "ErrorTrace"
      [] name = "WithFilterPath" -> "FilterPath"
      [] name \in HeaderOptions -> "Header"

\* The last option applied left every field but its own as it was.
OnlyOwnField ==
    \A f \in DOMAIN r \ {FieldOf(OptB.name)} : r[f] = BeforeLast[f]

\* The last two options applied, taken in the other order.
OtherOrder == ApplyOption(OptA, ApplyOption(OptB, BeforeLastTwo))

\* C12 as stated: whenever the last two options applied are built by
\* different constructors, WithHeader and WithOpaqueID included, the
\* configuration is the one the other order would have produced, and each
\* option changes only its own field.
C12_DifferentOptionsCommute ==
    /\ (pc = "options" /\ Len(o) >= 1) => OnlyOwnField
    /\ (pc = "options" /\ Len(o) >= 2 /\ OptA.name # OptB.name) => r = OtherOrder

\* A and B are a WithHeader whose map holds the X-Opaque-Id key and a
\* WithOpaqueID, in either order.
OpaqueIDClash(a, b) ==
    \/ /\ a.name = "WithHeader"
       /\ b.name = "WithOpaqueID"
       /\ \E e \in a.h : Canon(e[1]) = "X-Opaque-Id"
    \/ /\ b.name = "WithHeader"
       /\ a.name = "WithOpaqueID"
       /\ \E e \in b.h : Canon(e[1]) = "X-Opaque-Id"

\* C12 (amended): each option changes only the field it writes (WithHeader
\* and WithOpaqueID both write the header set); and whenever the last two
\* options applied are built by different constructors, other than a
\* WithHeader holding the X-Opaque-Id key with a WithOpaqueID, the
\* configuration is the one the other order would have produced.
C12_OptionsCommute ==
    /\ (pc = "options" /\ Len(o) >= 1) => OnlyOwnField
    /\ ( /\ pc = "options"
         /\ Len(o) >= 2
         /\ OptA.name # OptB.name
         /\ ~OpaqueIDClash(OptA, OptB) )
       => r = OtherOrder

\* After one option, a WithHeader of X and a WithOpaqueID were applied, and
\* the header set holds both.
C12_Witness ==
    /\ pc = "options"
    /\ Len(o) = 3
    /\ OptA.name = "WithHeader"
    /\ OptB.name = "WithOpaqueID"
    /\ "X" \in DOMAIN r.Header
    /\ r.Header["X-Opaque-Id"] = <<OptB.s>>
    /\ r = OtherOrder

\* C13: no step of Do, up to and including its return, changes a field of
\* the configuration it was called on, the contents of the header set
\* included, whatever the transport does with the request.
C13_DoLeavesConfig == [][pc' # "options" => r' = r]_vars

====
